---- MODULE Spec2Model ----
(***************************************************************************)
(* A model of SnowCat (src/src/SnowCat.py): the polling watcher            *)
(* (fetch, watch) and the session refresher (refresh) of one SnowCat       *)
(* instance, together with the portal it talks to.                         *)
(*                                                                         *)
(* Python values are encoded as follows.                                   *)
(*   dict     a record with a field "keys" (the keys that are present)     *)
(*            and one field per possible key; a field whose key is absent  *)
(*            holds a placeholder that no definition reads.                *)
(*   int/str  an id is [t |-> "int", n |-> 12, s |-> ""] or                *)
(*            [t |-> "str", n |-> 0, s |-> "12"].                          *)
(*   list, tuple, set, scalar, None (course_ids)                           *)
(*            [kind, seq, set]: seq holds the items of a list or tuple and *)
(*            the one item of a scalar, set the items of a set.            *)
(***************************************************************************)
EXTENDS Integers, Sequences, FiniteSets, TLC

VARIABLES
    was_failed,   \* self.was_failed
    params,       \* self.params (dict)
    headers,      \* self.headers (dict)
    wpc,          \* watch: where the call stands
    wIds,         \* watch: the course_ids argument of the running call
    response_list,\* watch: the list the last successful fetch returned
    trace,        \* watch: the calls the running call has made so far and
                  \*        how they ended, in order
    wStart,       \* watch: was_failed when the running call began
    nWatch,       \* watch: calls made so far
    rEntry,       \* watch: headers and params when it called refresh
    emitted,      \* watch: what the trigger has logged and sounded since the
                  \*        last fetch
    rpc,          \* refresh: the line the call stands at
    ui,           \* refresh: what the page shows (retry and trust buttons)
    duo,          \* refresh: what the two-factor loop has done so far
    polls,        \* refresh: waits of the subject loop so far
    req,          \* refresh: the intercepted request
    session,      \* refresh: playwright, browser and context of the call
    fResp,        \* direct fetch calls: the body the portal answers with
    fIds,         \* direct fetch calls: the ids the caller is interested in
    fPrev,        \* direct fetch calls: the call before the last one
    fLast         \* direct fetch calls: the last call and its outcome

instance == <<was_failed, params, headers>>
harness  == <<fResp, fIds, fPrev, fLast>>
watch    == <<wpc, wIds, response_list, trace, wStart, nWatch, rEntry, emitted>>
refresh  == <<rpc, ui, duo, polls, req, session>>
vars     == <<instance, watch, refresh, harness>>

----------------------------------------------------------------------------
(* Bounds of the model *)

\* longest data list of a response body
MaxData == 2
\* most ids a caller passes in course_ids
MaxIds == 2
\* most fetches of one watch call
MaxFetch == 3
\* most watch calls on the instance
MaxWatch == 2
\* most iterations of the two-factor loop in one refresh
MaxIter == 3
\* most waits of the subject loop in one refresh
MaxPolls == 2

----------------------------------------------------------------------------
(* Strings and ids *)

Digit == <<"0", "1", "2", "3", "4", "5", "6", "7", "8", "9">>

\* str(n) of a non-negative int: its decimal digits
RECURSIVE IntStr(_)
IntStr(n) == IF n < 10 THEN Digit[n + 1]
             ELSE IntStr(n \div 10) \o Digit[(n % 10) + 1]

IntId(n) == [t |-> "int", n |-> n, s |-> ""]
StrId(s) == [t |-> "str", n |-> 0, s |-> s]

\* str(ci): a str is itself, an int becomes its decimal digits
str(ci) == IF ci.t = "str" THEN ci ELSE StrId(IntStr(ci.n))

\* a == b between a str a (a reference number of the response) and an id b:
\* a str never equals an int
PyEq(a, b) == b.t = "str" /\ b.s = a

----------------------------------------------------------------------------
(* course_ids *)

None         == [kind |-> "none",   seq |-> <<>>,  set |-> {}]
Scalar(x)    == [kind |-> "scalar", seq |-> <<x>>, set |-> {}]
PyList(q)    == [kind |-> "list",   seq |-> q,     set |-> {}]
PyTuple(q)   == [kind |-> "tuple",  seq |-> q,     set |-> {}]
PySet(S)     == [kind |-> "set",    seq |-> <<>>,  set |-> S]

Range(q) == {q[i] : i \in 1..Len(q)}

\* The list course_ids is rebound to. It is only ever searched with "in",
\* so its members are all the model keeps of it.
NormalizeIdsNoStr(course_ids) ==
    IF course_ids.kind \in {"list", "tuple", "set"}
    THEN {str(ci) : ci \in Range(course_ids.seq) \cup course_ids.set}
    ELSE {course_ids.seq[1]}

NormalizeIds(course_ids) ==
    IF course_ids.kind \in {"list", "tuple", "set"}
    THEN {str(ci) : ci \in Range(course_ids.seq) \cup course_ids.set}
    ELSE {str(course_ids.seq[1])}

----------------------------------------------------------------------------
(* Response bodies *)

\* one entry of data: a dict with courseReferenceNumber and seatsAvailable
Entry(crn, seats) ==
    [keys |-> {"courseReferenceNumber", "seatsAvailable"},
     courseReferenceNumber |-> crn, seatsAvailable |-> seats]
EntryNoRef(seats) ==
    [keys |-> {"seatsAvailable"},
     courseReferenceNumber |-> "", seatsAvailable |-> seats]

Entries == {Entry("7", 0), Entry("12", 2), Entry("07", 1), EntryNoRef(1)}

RECURSIVE SeqsUpTo(_, _)
SeqsUpTo(S, n) ==
    IF n = 0 THEN {<<>>}
    ELSE LET shorter == SeqsUpTo(S, n - 1)
         IN  shorter \cup {Append(q, x) : q \in {r \in shorter : Len(r) = n - 1}, x \in S}

SuccessFields == {[keys |-> {}, success |-> FALSE],
                  [keys |-> {"success"}, success |-> FALSE],
                  [keys |-> {"success"}, success |-> TRUE]}

Body(sf, hasData, data) ==
    [keys    |-> sf.keys \cup (IF hasData THEN {"data"} ELSE {}),
     success |-> sf.success,
     data    |-> data]

Responses ==
    {Body(sf, FALSE, <<>>) : sf \in SuccessFields}
    \cup {Body(sf, TRUE, d) : sf \in SuccessFields, d \in SeqsUpTo(Entries, MaxData)}

----------------------------------------------------------------------------
(* fetch: from the parsed body to what leaves the call *)

Return(list) == [kind |-> "return", value |-> list]
Raise(type)  == [kind |-> type,     value |-> <<>>]

\* The handler of "except Exception": it formats response['success'] into
\* the ValueError it raises, and that lookup raises KeyError itself when
\* the body has no success field.
Wrap(response) ==
    IF "success" \in response.keys THEN Raise("ValueError") ELSE Raise("KeyError")

\* the filter of the list comprehension
Matches(candidate, ids) ==
    \E ci \in ids : PyEq(candidate.courseReferenceNumber, ci)

FilterCandidates(candidate_list, ids) ==
    SelectSeq(candidate_list, LAMBDA candidate : Matches(candidate, ids))

\* course_ids is None: lines 71-76. The else branch formats
\* response['success'], which is the key just found missing: the KeyError
\* is caught by the handler below it, whose own lookup raises it again.
FetchAllDropFirst(response, candidate_list) ==
    IF "success" \in response.keys
    THEN Return(IF candidate_list = <<>> THEN <<>> ELSE Tail(candidate_list))
    ELSE Wrap(response)

FetchAll(response, candidate_list) ==
    IF "success" \in response.keys
    THEN Return(candidate_list)
    ELSE Wrap(response)

\* course_ids is set: lines 77-87. candidate["courseReferenceNumber"] is
\* looked up for every entry, whatever the ids are.
FetchFiltered(response, candidate_list, course_ids) ==
    LET ids == NormalizeIds(course_ids) IN
    IF \E i \in 1..Len(candidate_list) :
          "courseReferenceNumber" \notin candidate_list[i].keys
    THEN Wrap(response)
    ELSE Return(FilterCandidates(candidate_list, ids))

\* lines 66-91
FetchResult(response, course_ids) ==
    IF "data" \notin response.keys
    THEN Wrap(response)
    ELSE IF course_ids.kind = "none"
         THEN FetchAll(response, response.data)
         ELSE FetchFiltered(response, response.data, course_ids)

----------------------------------------------------------------------------
(* The target of a run: watch(course_field, course_abb, course_num, ...) *)

course_abb == "CS"
course_num == "421"

\* lines 60-61
ParamsForFetch(p) ==
    [p EXCEPT !.keys = @ \cup {"txt_subject", "txt_courseNumber"},
              !.txt_subject = course_abb,
              !.txt_courseNumber = course_num]

EmptyParams ==
    [keys |-> {}, txt_subject |-> "", txt_courseNumber |-> "", uniqueSessionId |-> ""]
EmptyHeaders == [keys |-> {}, cookie |-> "", agent |-> ""]

----------------------------------------------------------------------------
(* Direct calls of fetch, with the same ids in different forms *)

IdPool == {7, 12}

Forms == {"none", "scalar_int", "scalar_str", "list_int", "list_str",
          "tuple_int", "tuple_str", "set_int", "set_str", "list_mixed"}

IntItems(q) == [i \in 1..Len(q) |-> IntId(q[i])]
StrItems(q) == [i \in 1..Len(q) |-> StrId(IntStr(q[i]))]
MixItems(q) == [i \in 1..Len(q) |-> IF i % 2 = 1 THEN IntId(q[i]) ELSE StrId(IntStr(q[i]))]

\* the ids q (ints) written as a value of course_ids
Express(q, form) ==
    CASE form = "none"       -> None
      [] form = "scalar_int" -> Scalar(IntItems(q)[1])
      [] form = "scalar_str" -> Scalar(StrItems(q)[1])
      [] form = "list_int"   -> PyList(IntItems(q))
      [] form = "list_str"   -> PyList(StrItems(q))
      [] form = "list_mixed" -> PyList(MixItems(q))
      [] form = "tuple_int"  -> PyTuple(IntItems(q))
      [] form = "tuple_str"  -> PyTuple(StrItems(q))
      [] form = "set_int"    -> PySet(Range(IntItems(q)))
      [] form = "set_str"    -> PySet(Range(StrItems(q)))

NoCall == [form |-> "nocall", result |-> Raise("nocall")]

\* cat.fetch(course_abb, course_num, course_ids) called by the user
DirectFetch(form) ==
    /\ form \in Forms
    /\ form \in {"scalar_int", "scalar_str"} => Len(fIds) = 1
    /\ params' = ParamsForFetch(params)
    /\ fPrev' = fLast
    /\ fLast' = [form |-> form, result |-> FetchResult(fResp, Express(fIds, form))]
    /\ UNCHANGED <<was_failed, headers, fResp, fIds, watch, refresh>>

----------------------------------------------------------------------------
(* The portal as the watcher sees it *)

Seats    == Body([keys |-> {"success"}, success |-> TRUE], TRUE, <<Entry("7", 0), Entry("12", 2)>>)
NoSeats  == Body([keys |-> {"success"}, success |-> TRUE], TRUE, <<Entry("7", 0)>>)
Expired  == Body([keys |-> {"success"}, success |-> FALSE], FALSE, <<>>)
Bare     == Body([keys |-> {}, success |-> FALSE], TRUE, <<EntryNoRef(1)>>)
NoRef    == Body([keys |-> {"success"}, success |-> TRUE], TRUE, <<EntryNoRef(1)>>)

WatchResponses == {Seats, NoSeats, Expired, Bare, NoRef}

\* what one call of fetch can end with: requests.get or response.json()
\* raising (line 63, 64), or lines 66-91 on the parsed body
FetchOutcomes(cids) ==
    {Raise("ConnectionError"), Raise("JSONDecodeError")}
    \cup {FetchResult(r, cids) : r \in WatchResponses}

WatchCourseIds == {None, Scalar(IntId(12))}

----------------------------------------------------------------------------
(* watch *)

NumFetch(t) == Cardinality({i \in DOMAIN t : t[i] \in {"fetch_ok", "fetch_fail"}})

\* line 250
WasFailedAfterSuccessKept(wf) == wf

WasFailedAfterSuccess(wf) == FALSE

\* lines 253-260: what the handler of a failed fetch does
OnFetchErrorAlwaysRefresh(wf) == "refresh"

OnFetchErrorAlwaysAbort(wf) == "abort"

OnFetchError(wf) == IF wf THEN "abort" ELSE "refresh"

\* a handler that takes an error of refresh for one more failed fetch
OnRefreshErrorCaught(wf) == IF wf THEN "aborted" ELSE "fetch"

\* line 259: refresh is called inside the except clause of lines 252-260,
\* which the try of line 248 does not guard; its error leaves watch,
\* whatever was_failed is
OnRefreshError(wf) == "raised"

\* a trigger called inside the try of line 248: its error is one more
\* failed fetch
OnTriggerErrorCaught(wf) == IF wf THEN "aborted" ELSE "refresh"

\* lines 262-263: the trigger is called in the else clause of the try
\* statement, which the except clause of line 252 does not guard; its
\* error leaves watch, whatever was_failed is
OnTriggerError(wf) == "raised"

\* line 239: range(5)
AlertPulses == 5

Pulses(n) == [i \in 1..n |-> "pulse"]

\* a trigger that looks at the first entry only
DefaultTriggerFirstOnly(candidate_list) ==
    IF \E i \in 1..Len(candidate_list) :
          candidate_list[i].keys # {"courseReferenceNumber", "seatsAvailable"}
    THEN "trigger_err"
    ELSE IF candidate_list # <<>> /\ candidate_list[1].seatsAvailable > 0
         THEN "alarm"
         ELSE "debug"

\* a loop that sleeps after the refresh
AfterRefreshSleep == "sleep"

\* line 260: continue, which skips the sleep of line 265
AfterRefresh == "fetch"

\* the default trigger, lines 228-243
DefaultTrigger(candidate_list) ==
    IF \E i \in 1..Len(candidate_list) :
          candidate_list[i].keys # {"courseReferenceNumber", "seatsAvailable"}
    THEN "trigger_err"
    ELSE IF \E i \in 1..Len(candidate_list) : candidate_list[i].seatsAvailable > 0
         THEN "alarm"
         ELSE "debug"

\* what the default trigger emits: the warning of line 238 and the pulses
\* of lines 239-241, or the debug line of line 243, or nothing when line
\* 233 raises KeyError
TriggerEvents(r) ==
    IF r = "alarm" THEN <<"warning">> \o Pulses(AlertPulses)
    ELSE IF r = "debug" THEN <<"debug">>
    ELSE <<>>

----------------------------------------------------------------------------
(* refresh *)

UiStates == {"retry", "neither", "trust", "both"}
RetryVisible(u) == u \in {"retry", "both"}
TrustVisible(u) == u \in {"trust", "both"}

DuoPcs == {"d159a", "d159b", "d160", "d163a", "d163b", "d164", "d165a", "d165b", "d166"}

\* The conditions of lines 159, 163 and 165, one is_visible() call at a
\* time: from the call at pc, seeing u, to the line reached next. "and"
\* evaluates its right operand only when the left one is true.
DuoNextNoIdle(pc, u) ==
    CASE pc = "d159a" -> IF RetryVisible(u) THEN "d159b" ELSE "d163a"
      [] pc = "d159b" -> IF ~TrustVisible(u) THEN "d160" ELSE "d163a"
      [] pc = "d163a" -> IF ~RetryVisible(u) THEN "d163b" ELSE "d165a"
      [] pc = "d163b" -> "d165a"
      [] pc = "d165a" -> IF ~RetryVisible(u) THEN "d165b" ELSE "d159a"
      [] pc = "d165b" -> IF TrustVisible(u) THEN "d166" ELSE "d159a"

DuoNext(pc, u) ==
    CASE pc = "d159a" -> IF RetryVisible(u) THEN "d159b" ELSE "d163a"
      [] pc = "d159b" -> IF ~TrustVisible(u) THEN "d160" ELSE "d163a"
      [] pc = "d163a" -> IF ~RetryVisible(u) THEN "d163b" ELSE "d165a"
      [] pc = "d163b" -> IF ~TrustVisible(u) THEN "d164" ELSE "d165a"
      [] pc = "d165a" -> IF ~RetryVisible(u) THEN "d165b" ELSE "d159a"
      [] pc = "d165b" -> IF TrustVisible(u) THEN "d166" ELSE "d159a"

DuoInit ==
    [retry |-> 0, idle |-> 0, trust |-> 0,   \* clicks and waits so far
     iters |-> 0,                            \* iterations begun so far
     clean |-> TRUE,   \* every iteration so far saw one state, neither or trust
     seen  |-> "none"] \* what the running iteration has seen of the page:
                       \* "none" between iterations, a state of the page, or
                       \* "mixed" once two looks of the iteration differed
                       \* ("mixed_both" when one of them saw both buttons)

\* one more look at the page within the running iteration
Observe(d, u) ==
    IF d.seen = "none"
    THEN [d EXCEPT !.iters = @ + 1, !.seen = u,
                   !.clean = @ /\ u \in {"neither", "trust"}]
    ELSE IF u = d.seen THEN d
    ELSE [d EXCEPT !.seen = IF u = "both" \/ d.seen \in {"both", "mixed_both"}
                            THEN "mixed_both" ELSE "mixed",
                   !.clean = FALSE]

\* the running iteration is over
EndIter(d) == [d EXCEPT !.seen = "none"]

(* the intercepted request *)

H1 == [keys |-> {"cookie"}, cookie |-> "c1", agent |-> ""]
H2 == [keys |-> {"cookie", "agent"}, cookie |-> "c2", agent |-> "a2"]

QueryWithId  == << <<"txt_subject", "CS">>, <<"uniqueSessionId", "abc">> >>
QueryNoId    == << <<"txt_subject", "CS">> >>
QueryBlankId == << <<"txt_subject", "CS">>, <<"uniqueSessionId", "">>,
                   <<"uniqueSessionId", "xyz">>, <<"uniqueSessionId", "abc">> >>

NoReq == [none |-> TRUE, headers |-> EmptyHeaders, query |-> <<>>]
Request(h, q) == [none |-> FALSE, headers |-> h, query |-> q]

Requests == {Request(H1, QueryWithId), Request(H2, QueryNoId), Request(H2, QueryBlankId)}

\* parse_qs(query)[key]: the values of key in order, blank values dropped
\* (keep_blank_values is off); the key is in the result iff the list is not
\* empty
RECURSIVE QsValues(_, _)
QsValues(query, key) ==
    IF query = <<>> THEN <<>>
    ELSE LET rest == QsValues(Tail(query), key)
         IN  IF Head(query)[1] = key /\ Head(query)[2] # ""
             THEN <<Head(query)[2]>> \o rest
             ELSE rest

\* lines 101-103
UpdateHeaders(h, r) == IF r.none THEN h ELSE r.headers

\* lines 113-117
UpdateParams(p, r) ==
    IF r.none THEN p
    ELSE LET v == QsValues(r.query, "uniqueSessionId") IN
         IF v # <<>>
         THEN [p EXCEPT !.keys = @ \cup {"uniqueSessionId"}, !.uniqueSessionId = v[1]]
         ELSE p

\* the timeout argument of the call, in milliseconds (lines 123, 212)
Timeout == 10

\* line 164: the time one idle wait of the two-factor loop takes
IdleSlice(t) == IF t \div 10 > 10 THEN t \div 10 ELSE 10

\* line 188: the time one wait of the subject loop takes
PollSlice(t) == IF t \div 100 > 10 THEN t \div 100 ELSE 10

\* the steps of refresh that can time out, and one more: context.close()
RaisingPcsLate == {"goto", "login", "term", "subject", "course", "close"}

\* the steps of refresh that wait for the page and raise when the timeout
\* of line 141 passes: lines 144, 147-152, 170-173, 176-181, 191-193
RaisingPcs == {"goto", "login", "term", "subject", "course"}

\* no call of refresh is under way or has failed
NoEntry == <<EmptyHeaders, EmptyParams>>

NoSession   == [playwright |-> "none",    browser |-> "none",   context |-> "none"]
OpenSession == [playwright |-> "running", browser |-> "open",   context |-> "open"]

\* an exit that stops nothing
StoppedNot(ses) == ses

\* leaving the with block of line 136 stops playwright, and with it the
\* browser process and the contexts it serves
Stopped(ses) == [ses EXCEPT !.playwright = "stopped"]

\* a browser or a context that was not closed and whose playwright runs
SessionOpen(ses) ==
    ses.playwright = "running" /\ (ses.browser = "open" \/ ses.context = "open")
ClosedSession == [playwright |-> "stopped", browser |-> "closed", context |-> "closed"]

----------------------------------------------------------------------------
(* The actions of watch *)

\* cat.watch(...) is called: lines 227-245
StartWatch(cids) ==
    /\ wpc \in {"idle", "aborted", "raised"}
    /\ nWatch < MaxWatch
    /\ wpc' = "fetch"
    /\ wIds' = cids
    /\ response_list' = <<>>
    /\ trace' = <<>>
    /\ wStart' = was_failed
    /\ nWatch' = nWatch + 1
    /\ rEntry' = NoEntry
    /\ emitted' = <<>>
    /\ UNCHANGED <<instance, refresh, harness>>

\* lines 248-260: one fetch and what the loop does with its outcome, up to
\* the call of refresh
WatchFetch ==
    /\ wpc = "fetch"
    /\ NumFetch(trace) < MaxFetch
    /\ params' = ParamsForFetch(params)
    /\ \E out \in FetchOutcomes(wIds) :
          IF out.kind = "return"
          THEN /\ was_failed' = WasFailedAfterSuccess(was_failed)
               /\ response_list' = out.value
               /\ trace' = Append(trace, "fetch_ok")
               /\ wpc' = "trigger"
               /\ UNCHANGED <<refresh, rEntry>>
          ELSE IF OnFetchError(was_failed) = "abort"
          THEN /\ trace' = trace \o <<"fetch_fail", "abort">>
               /\ wpc' = "aborted"
               /\ UNCHANGED <<was_failed, response_list, refresh, rEntry>>
          ELSE /\ was_failed' = TRUE
               /\ trace' = trace \o <<"fetch_fail", "refresh">>
               /\ wpc' = "refresh"
               /\ rpc' = "launch"
               /\ rEntry' = <<headers, params'>>
               /\ UNCHANGED <<response_list, ui, duo, polls, req, session>>
    /\ UNCHANGED <<headers, wIds, wStart, nWatch, emitted, harness>>

\* lines 262-263, with the default trigger
WatchTrigger ==
    /\ wpc = "trigger"
    /\ LET r  == DefaultTrigger(response_list)
           on == OnTriggerError(was_failed)
           ev == trace \o <<"trigger", "trigger_err">>
       IN  IF r # "trigger_err"
           THEN /\ trace' = Append(trace, "trigger")
                /\ wpc' = "sleep"
                /\ UNCHANGED <<was_failed, refresh, rEntry>>
           ELSE IF on = "raised"
           THEN /\ trace' = ev
                /\ wpc' = "raised"
                /\ UNCHANGED <<was_failed, refresh, rEntry>>
           ELSE IF on = "aborted"
           THEN /\ trace' = ev \o <<"abort">>
                /\ wpc' = "aborted"
                /\ UNCHANGED <<was_failed, refresh, rEntry>>
           ELSE /\ was_failed' = TRUE
                /\ trace' = ev \o <<"refresh">>
                /\ wpc' = "refresh"
                /\ rpc' = "launch"
                /\ rEntry' = <<headers, params>>
                /\ UNCHANGED <<ui, duo, polls, req, session>>
    /\ emitted' = TriggerEvents(DefaultTrigger(response_list))
    /\ UNCHANGED <<params, headers, wIds, response_list, wStart, nWatch, harness>>

\* line 265. response_list is rebound by the next successful fetch before
\* anything reads it again.
WatchSleep ==
    /\ wpc = "sleep"
    /\ trace' = Append(trace, "sleep")
    /\ wpc' = "fetch"
    /\ response_list' = <<>>
    /\ emitted' = <<>>
    /\ UNCHANGED <<instance, wIds, wStart, nWatch, rEntry, refresh, harness>>

----------------------------------------------------------------------------
(* The actions of refresh *)

\* lines 136-141
RefreshLaunch ==
    /\ rpc = "launch"
    /\ session' = OpenSession
    /\ rpc' = "goto"
    /\ UNCHANGED <<instance, watch, ui, duo, polls, req, harness>>

\* line 144
RefreshGoto ==
    /\ rpc = "goto"
    /\ rpc' = "login"
    /\ UNCHANGED <<instance, watch, ui, duo, polls, req, session, harness>>

\* lines 147-156; the page that follows the login shows any of the states
RefreshLogin ==
    /\ rpc = "login"
    /\ rpc' = "d159a"
    /\ ui' \in UiStates
    /\ duo' = DuoInit
    /\ UNCHANGED <<instance, watch, polls, req, session, harness>>

\* the portal changes the page on its own
PortalChange(u) ==
    /\ rpc \in DuoPcs
    /\ u \in UiStates \ {ui}
    /\ ui' = u
    /\ UNCHANGED <<instance, watch, rpc, duo, polls, req, session, harness>>

\* one is_visible() call of lines 159, 163, 165
DuoCheck ==
    /\ rpc \in {"d159a", "d159b", "d163a", "d163b", "d165a", "d165b"}
    /\ rpc = "d159a" => duo.iters < MaxIter
    /\ rpc' = DuoNext(rpc, ui)
    /\ duo' = IF rpc' = "d159a" THEN EndIter(Observe(duo, ui))
              ELSE Observe(duo, ui)
    /\ UNCHANGED <<instance, watch, ui, polls, req, session, harness>>

\* lines 160-162
DuoClickRetry ==
    /\ rpc = "d160"
    /\ RetryVisible(ui)
    /\ duo' = EndIter([Observe(duo, ui) EXCEPT !.retry = @ + 1])
    /\ rpc' = "d159a"
    /\ UNCHANGED <<instance, watch, ui, polls, req, session, harness>>

\* line 164
DuoIdleWait ==
    /\ rpc = "d164"
    /\ duo' = EndIter([duo EXCEPT !.idle = @ + 1])
    /\ rpc' = "d159a"
    /\ UNCHANGED <<instance, watch, ui, polls, req, session, harness>>

\* lines 166-167
DuoClickTrust ==
    /\ rpc = "d166"
    /\ TrustVisible(ui)
    /\ duo' = EndIter([Observe(duo, ui) EXCEPT !.trust = @ + 1])
    /\ rpc' = "term"
    /\ UNCHANGED <<instance, watch, ui, polls, req, session, harness>>

\* lines 170-173
RefreshTerm ==
    /\ rpc = "term"
    /\ rpc' = "subject"
    /\ ui' = "neither"
    /\ duo' = DuoInit
    /\ UNCHANGED <<instance, watch, polls, req, session, harness>>

\* lines 176-181
RefreshSubject ==
    /\ rpc = "subject"
    /\ rpc' = "s184"
    /\ UNCHANGED <<instance, watch, ui, duo, polls, req, session, harness>>

\* lines 183-189: results.count() is 1, or it is not
SubjectPoll ==
    /\ rpc = "s184"
    /\ \/ /\ rpc' = "course"
          /\ UNCHANGED polls
       \/ /\ polls < MaxPolls
          /\ polls' = polls + 1
          /\ UNCHANGED rpc
    /\ UNCHANGED <<instance, watch, ui, duo, req, session, harness>>

\* lines 191-193: the request the page sends is intercepted
RefreshCourse ==
    /\ rpc = "course"
    /\ req' \in Requests
    /\ rpc' = "capture"
    /\ UNCHANGED <<instance, watch, ui, duo, polls, session, harness>>

\* lines 196-197
RefreshCapture ==
    /\ rpc = "capture"
    /\ headers' = UpdateHeaders(headers, req)
    /\ params' = UpdateParams(params, req)
    /\ rpc' = "close"
    /\ UNCHANGED <<was_failed, watch, ui, duo, polls, req, session, harness>>

\* lines 199-202, and line 260: the loop goes on with the next fetch
RefreshClose ==
    /\ rpc = "close"
    /\ session' = ClosedSession
    /\ rpc' = "none"
    /\ polls' = 0
    /\ req' = NoReq
    /\ trace' = Append(trace, "refresh_ok")
    /\ wpc' = AfterRefresh
    /\ rEntry' = NoEntry
    /\ UNCHANGED <<instance, wIds, response_list, wStart, nWatch, emitted, ui, duo, harness>>

\* A step of refresh times out: the exception leaves the with block of line
\* 136 and then watch, which does not catch it (line 259 is in the handler).
RefreshRaise ==
    /\ \/ rpc \in RaisingPcs
       \/ rpc = "d160" /\ ~RetryVisible(ui)
       \/ rpc = "d166" /\ ~TrustVisible(ui)
    /\ session' = Stopped(session)
    /\ rpc' = "none"
    /\ ui' = "neither"
    /\ duo' = DuoInit
    /\ polls' = 0
    /\ req' = NoReq
    /\ wpc' = OnRefreshError(was_failed)
    /\ trace' = IF wpc' = "aborted" THEN trace \o <<"refresh_err", "abort">>
                ELSE Append(trace, "refresh_err")
    /\ UNCHANGED <<instance, wIds, response_list, wStart, nWatch, rEntry, emitted, harness>>

----------------------------------------------------------------------------

InitInstance ==
    /\ was_failed = FALSE
    /\ params = EmptyParams
    /\ headers = EmptyHeaders

InitWatch ==
    /\ wpc = "idle"
    /\ wIds = None
    /\ response_list = <<>>
    /\ trace = <<>>
    /\ wStart = FALSE
    /\ nWatch = 0
    /\ rEntry = NoEntry
    /\ emitted = <<>>

InitRefresh ==
    /\ rpc = "none"
    /\ ui = "neither"
    /\ duo = DuoInit
    /\ polls = 0
    /\ req = NoReq
    /\ session = NoSession

FetchInit ==
    /\ InitInstance
    /\ InitWatch
    /\ InitRefresh
    /\ fResp \in Responses
    /\ fIds \in SeqsUpTo(IdPool, MaxIds)
    /\ fPrev = NoCall
    /\ fLast = NoCall

FetchNext == \E form \in Forms : DirectFetch(form)

FetchSpec == FetchInit /\ [][FetchNext]_vars

\* the program: cat = SnowCat(); cat.watch(...)
Init ==
    /\ InitInstance
    /\ InitWatch
    /\ InitRefresh
    /\ fResp = Expired
    /\ fIds = <<>>
    /\ fPrev = NoCall
    /\ fLast = NoCall

Next ==
    \/ \E cids \in WatchCourseIds : StartWatch(cids)
    \/ WatchFetch
    \/ WatchTrigger
    \/ WatchSleep
    \/ RefreshLaunch
    \/ RefreshGoto
    \/ RefreshLogin
    \/ \E u \in UiStates : PortalChange(u)
    \/ DuoCheck
    \/ DuoClickRetry
    \/ DuoIdleWait
    \/ DuoClickTrust
    \/ RefreshTerm
    \/ RefreshSubject
    \/ SubjectPoll
    \/ RefreshCourse
    \/ RefreshCapture
    \/ RefreshClose
    \/ RefreshRaise

Spec == Init /\ [][Next]_vars

----------------------------------------------------------------------------
(* Properties of watch *)

IsFetch(e) == e \in {"fetch_ok", "fetch_fail"}

\* positions i < j of the trace hold two fetches with no fetch between them
Consecutive(i, j) ==
    /\ i \in DOMAIN trace /\ j \in DOMAIN trace /\ i < j
    /\ IsFetch(trace[i]) /\ IsFetch(trace[j])
    /\ \A k \in (i + 1)..(j - 1) : ~IsFetch(trace[k])

\* position j holds the fetch made last
LastFetch(j) ==
    /\ j \in DOMAIN trace /\ IsFetch(trace[j])
    /\ \A k \in (j + 1)..Len(trace) : ~IsFetch(trace[k])

\* C1: when two consecutive fetches of a watch call fail, the call ends
\* right after the second failure (fatal abort); from the first failure to
\* the end refresh is called exactly once and trigger is never invoked.
C1_TwoFailuresAbort ==
    \A i, j \in DOMAIN trace :
        (Consecutive(i, j) /\ trace[i] = "fetch_fail" /\ trace[j] = "fetch_fail")
        => /\ Len(trace) = j + 1
           /\ trace[j + 1] = "abort"
           /\ wpc = "aborted"
           /\ Cardinality({k \in i..Len(trace) : trace[k] = "refresh"}) = 1
           /\ \A k \in i..Len(trace) : trace[k] # "trigger"

C1_Witness ==
    /\ wpc = "aborted"
    /\ \E i, j \in DOMAIN trace :
          Consecutive(i, j) /\ trace[i] = "fetch_fail" /\ trace[j] = "fetch_fail"

\* positions i..i+3 of the trace: a failed fetch, refresh called, refresh
\* returning, a successful fetch
Recovered(i) ==
    /\ i + 3 <= Len(trace)
    /\ trace[i] = "fetch_fail" /\ trace[i + 1] = "refresh"
    /\ trace[i + 2] = "refresh_ok" /\ trace[i + 3] = "fetch_ok"

\* C2: after a failed fetch, a successful refresh and a successful fetch,
\* was_failed is false again, and the next failed fetch is handled as a
\* first failure: it sets was_failed and calls refresh, it does not abort.
C2_FailureMemoryReset ==
    \A i \in DOMAIN trace :
        Recovered(i)
        => /\ LastFetch(i + 3) => ~was_failed
           /\ \A j \in DOMAIN trace :
                 (Consecutive(i + 3, j) /\ trace[j] = "fetch_fail")
                 => /\ trace[j + 1] = "refresh"
                    /\ Len(trace) = j + 1 => (was_failed /\ wpc = "refresh")

C2_Witness ==
    \E i, j \in DOMAIN trace :
        /\ Recovered(i) /\ Consecutive(i + 3, j) /\ trace[j] = "fetch_fail"
        /\ Len(trace) = j + 1 /\ rpc = "launch"

\* C3: in a watch call that began with was_failed false, the fatal abort is
\* taken only when the two fetches made last both failed; a call in which
\* no two consecutive fetches fail never aborts, however many fail.
C3_AbortOnlyAfterTwoFailures ==
    (~wStart /\ (wpc = "aborted" \/ \E k \in DOMAIN trace : trace[k] = "abort"))
    => \E i, j \in DOMAIN trace :
          /\ Consecutive(i, j) /\ LastFetch(j)
          /\ trace[i] = "fetch_fail" /\ trace[j] = "fetch_fail"

C3_Witness ==
    /\ ~wStart
    /\ wpc = "refresh"
    /\ Cardinality({k \in DOMAIN trace : trace[k] = "fetch_fail"}) >= 2
    /\ \A k \in DOMAIN trace : trace[k] # "abort"

----------------------------------------------------------------------------
(* Properties of fetch *)

Called(c) == c.form # "nocall"

\* C4: for every body whose success field is false, fetch raises its
\* ValueError and returns no list, with course_ids None or set.
C4_SuccessFalseRaises ==
    (Called(fLast) /\ "success" \in fResp.keys /\ ~fResp.success)
    => fLast.result.kind = "ValueError"

\* C5: for every body {success: true, data: L}, fetch with course_ids None
\* returns exactly L, the same entries in the same order.
C5_NoneReturnsData ==
    (fLast.form = "none" /\ fResp.keys = {"success", "data"} /\ fResp.success)
    => fLast.result = Return(fResp.data)

C5_Witness ==
    /\ fLast.form = "none" /\ fResp.keys = {"success", "data"} /\ fResp.success
    /\ Len(fResp.data) = 2 /\ fResp.data[1] # fResp.data[2]
    /\ fLast.result.kind = "return"

IdForms == Forms \ {"none"}

\* the entries of data whose reference number is the decimal string of one
\* of the ids q, in the order of the response
ExpectedFilter(response, q) ==
    SelectSeq(response.data,
              LAMBDA e : \E i \in 1..Len(q) : e.courseReferenceNumber = IntStr(q[i]))

\* C6: the same ids give the same outcome whether they are passed as a
\* list, a tuple or a set, as ints or as strs, or (one id) as a scalar; a
\* returned list holds the entries of data whose reference number is one
\* of the ids as a string, in response order.
C6_SameIdsSameResult ==
    /\ (fPrev.form \in IdForms /\ fLast.form \in IdForms)
       => fPrev.result = fLast.result
    /\ (fLast.form \in IdForms /\ fLast.result.kind = "return")
       => fLast.result.value = ExpectedFilter(fResp, fIds)

C6_Witness ==
    /\ fPrev.form = "scalar_int" /\ fLast.form = "set_str"
    /\ fLast.result.kind = "return"
    /\ Len(fLast.result.value) = 1
    /\ Len(fResp.data) = 2

LacksField(response) ==
    \/ "data" \notin response.keys
    \/ "success" \notin response.keys
    \/ \E i \in 1..Len(response.data) :
          "courseReferenceNumber" \notin response.data[i].keys

\* C7: when the body lacks an expected field (data, success, an entry's
\* courseReferenceNumber), an error that leaves fetch is its ValueError,
\* never the KeyError of the lookup.
C7_MissingFieldIsValueError ==
    (Called(fLast) /\ LacksField(fResp) /\ fLast.result.kind # "return")
    => fLast.result.kind = "ValueError"

----------------------------------------------------------------------------
(* Properties of refresh *)

\* C8: when the iterations of the two-factor loop see k times "neither
\* button visible" and then "trust visible, retry not" (duo.clean), the
\* loop has clicked retry never, has waited once per iteration that is
\* over, and leaves after k waits and one click of the trust button.
C8_WaitsThenTrust ==
    duo.clean
    => /\ duo.retry = 0
       /\ rpc \in DuoPcs
          => /\ duo.trust = 0
             /\ duo.idle = IF duo.seen = "none" THEN duo.iters ELSE duo.iters - 1
       /\ rpc = "d164" => duo.seen = "neither"
       /\ rpc = "d166" => duo.seen = "trust"
       /\ rpc = "term"
          => /\ duo.trust = 1
             /\ duo.idle = duo.iters - 1

C8_Witness ==
    /\ rpc = "term" /\ duo.clean
    /\ duo.iters = 3 /\ duo.idle = 2 /\ duo.trust = 1 /\ duo.retry = 0

\* C9: an iteration of the two-factor loop that sees the retry and the
\* trust button both visible clicks the trust button and leaves the loop.
C9_BothVisibleClicksTrust ==
    [][(duo.seen = "both" /\ ui = "both" /\ duo'.seen = "none")
       => (rpc' = "term" /\ duo'.trust = duo.trust + 1)]_vars

\* C10: once refresh has captured the intercepted request, params holds
\* under uniqueSessionId the first value the request's URL carries, and
\* does not hold the key when the URL carries none.
C10_ParamsReflectLastRequest ==
    rpc = "close"
    => LET v == QsValues(req.query, "uniqueSessionId") IN
       IF v # <<>>
       THEN "uniqueSessionId" \in params.keys /\ params.uniqueSessionId = v[1]
       ELSE "uniqueSessionId" \notin params.keys

----------------------------------------------------------------------------
(* Properties of the credentials *)

\* what lines 113-117 store from the request r into params that hold no
\* session id yet
FreshParams(r) == UpdateParams(EmptyParams, r)

\* C11: after a successful refresh the credentials come from the
\* intercepted request alone: headers is the request's headers, and the
\* session id in params is there iff the request carries one and is that
\* one; nothing of the credentials held before the refresh is left.
C11_CredentialsReplacedWholesale ==
    rpc = "close"
    => /\ headers = req.headers
       /\ ("uniqueSessionId" \in params.keys)
             = ("uniqueSessionId" \in FreshParams(req).keys)
       /\ "uniqueSessionId" \in params.keys
             => params.uniqueSessionId = FreshParams(req).uniqueSessionId

----------------------------------------------------------------------------
(* Properties of refresh as watch calls it *)

\* C12: whenever refresh is not running, having returned or having raised
\* at any of its steps, no browser and no context of it is open.
C12_SessionReleasedOnExit ==
    rpc = "none" => ~SessionOpen(session)

\* refresh has raised after the launch, before context.close() of line 199
C12_Witness ==
    /\ rpc = "none"
    /\ trace # <<>> /\ trace[Len(trace)] = "refresh_err"
    /\ session.browser = "open" /\ session.context = "open"
    /\ session.playwright = "stopped"

\* C13: an error of refresh ends the watch call at once: it is the last
\* event of the call, which has raised; no fetch, trigger, sleep or fatal
\* abort follows it.
C13_RefreshErrorPropagates ==
    \A i \in DOMAIN trace :
        trace[i] = "refresh_err"
        => /\ i = Len(trace)
           /\ wpc = "raised"
           /\ rpc = "none"

\* the first fetch failed, refresh was called and failed
C13_Witness ==
    /\ trace = <<"fetch_fail", "refresh", "refresh_err">>
    /\ wpc = "raised"
    /\ was_failed

\* C14: refresh does not stay in a wait loop beyond the timeout: while it
\* is in the two-factor loop or in the subject loop, the time it has spent
\* in the waits of that loop is at most the timeout it was called with.
C14_WaitBounded ==
    /\ rpc \in DuoPcs => duo.idle * IdleSlice(Timeout) <= Timeout
    /\ rpc = "s184" => polls * PollSlice(Timeout) <= Timeout

----------------------------------------------------------------------------
(* Properties of the trigger *)

\* the trigger was invoked on response_list and has returned or raised, and
\* nothing has happened since
TriggerDone ==
    \/ wpc = "sleep"
    \/ wpc = "raised" /\ trace # <<>> /\ trace[Len(trace)] = "trigger_err"

\* every entry of the list carries the reference number and the seats
Complete(list) ==
    \A i \in DOMAIN list : list[i].keys = {"courseReferenceNumber", "seatsAvailable"}

HasSeats(list) == \E i \in DOMAIN list : list[i].seatsAvailable > 0

\* C15: the default trigger, given a result list, emits the warning and
\* the five pulses iff some entry has seatsAvailable > 0; for every other
\* result list, the empty one included, it emits the debug line and
\* nothing else.
C15_AlertIffSeats ==
    (TriggerDone /\ Complete(response_list))
    => emitted = IF HasSeats(response_list)
                 THEN <<"warning", "pulse", "pulse", "pulse", "pulse", "pulse">>
                 ELSE <<"debug">>

\* the trigger was given the list with 0 and 2 seats and has alerted
C15_Witness ==
    /\ wpc = "sleep"
    /\ response_list = <<Entry("7", 0), Entry("12", 2)>>
    /\ Len(emitted) = 6

----------------------------------------------------------------------------
(* The order of the events of a watch call *)

\* the events that can come right after the event e
After(e) ==
    CASE e = "fetch_ok"   -> {"trigger"}
      [] e = "trigger"    -> {"sleep", "trigger_err"}
      [] e = "sleep"      -> {"fetch_ok", "fetch_fail"}
      [] e = "fetch_fail" -> {"refresh", "abort"}
      [] e = "refresh"    -> {"refresh_ok", "refresh_err"}
      [] e = "refresh_ok" -> {"fetch_ok", "fetch_fail"}
      [] OTHER            -> {}

\* C16: a watch call starts with a fetch; a successful fetch is followed
\* by one invocation of the trigger and then one sleep before the next
\* fetch; a first failure is followed by refresh and, when
\* refresh returns, by the next fetch with no sleep between; the trigger
\* is invoked right after a successful fetch and nowhere else.
C16_EventOrder ==
    /\ trace # <<>> => IsFetch(trace[1])
    /\ \A i \in 1..(Len(trace) - 1) : trace[i + 1] \in After(trace[i])
    /\ wpc = "trigger" => trace[Len(trace)] = "fetch_ok"
    /\ wpc = "sleep" => trace[Len(trace)] = "trigger"
    /\ emitted # <<>> => wpc = "sleep"

\* a successful fetch with trigger and sleep, then a failed fetch, refresh
\* and the next fetch
C16_Witness ==
    \E i \in DOMAIN trace :
        /\ i + 4 <= Len(trace)
        /\ trace[1] = "fetch_ok"
        /\ trace[i] = "sleep"
        /\ trace[i + 1] = "fetch_fail"
        /\ trace[i + 2] = "refresh"
        /\ trace[i + 3] = "refresh_ok"
        /\ trace[i + 4] = "fetch_ok"

----------------------------------------------------------------------------
(* Properties of a refresh that fails *)

C18_TriggerErrorPropagates ==
    \A i \in DOMAIN trace :
        trace[i] = "trigger_err"
        => /\ i = Len(trace)
           /\ wpc = "raised"
           /\ ~was_failed
           /\ rpc = "none"

\* a fetch failed and refresh returned; the next fetch returned a list
\* on which the trigger raised
C18_Witness ==
    /\ Len(trace) = 6
    /\ trace[3] = "refresh_ok" /\ trace[4] = "fetch_ok"
    /\ trace[5] = "trigger" /\ trace[6] = "trigger_err"
    /\ emitted = <<>>
    /\ wpc = "raised" /\ ~was_failed

----------------------------------------------------------------------------
(* The two-factor loop while the page changes *)

\* clicks and waits of the two-factor loop so far
Acts(d) == d.retry + d.idle + d.trust

\* C19: an iteration of the two-factor loop whose looks at the page each
\* saw retry only, neither button or trust only, and which ends without an
\* error, has clicked retry, waited or clicked trust exactly once.
C19_EveryIterationActs ==
    [][(/\ duo.seen \in {"retry", "neither", "trust", "mixed"}
        /\ ui # "both"
        /\ duo'.seen = "none"
        /\ rpc' \in {"d159a", "term"})
       => Acts(duo') = Acts(duo) + 1]_vars

----------------------------------------------------------------------------
(* was_failed across watch calls *)

\* C20: when a watch call begins, was_failed is false, so that the first
\* failed fetch of the call is followed by refresh and not by the fatal
\* abort.
C20_WasFailedFalseAtStart ==
    /\ (wpc = "fetch" /\ trace = <<>>) => ~was_failed
    /\ (Len(trace) >= 2 /\ trace[1] = "fetch_fail") => trace[2] = "refresh"

====
